---- MODULE Spec2Model ----
(***************************************************************************)
(* Model of the 2Cmetro route planner (metroroute.py, metrofares.py):     *)
(* the metro graph, breadth-first path and distance queries, the fare     *)
(* formula, and get_route_from_path, the compiler that turns a station    *)
(* path into BeginAt / GoTo / Transfer / ArriveAt actions followed by its *)
(* post-processing pass.                                                  *)
(*                                                                         *)
(* Python values are encoded as follows.  Optional values (None or x) are *)
(* sequences of length 0 or 1.  List indices are 0-based as in the source *)
(* and follow Python's rules: seq[k] is defined for -len <= k < len and   *)
(* raises IndexError otherwise.  list(set)[0] on a set of Line members    *)
(* depends on the per-process string hash seed and on how the set was     *)
(* built, so it is a nondeterministic choice of one member.               *)
(***************************************************************************)
EXTENDS Integers, Sequences, FiniteSets, TLC

VARIABLES start, end, path, pc, i, route, begin, buf, curline, err, cost

vars == <<start, end, path, pc, i, route, begin, buf, curline, err, cost>>

----------------------------------------------------------------------------
(* Bounds of the model *)

\* longest station walk handed directly to get_route_from_path
MaxWalkLen == 4

\* a compile that has emitted this many actions is not followed further
MaxRouteLen == 10

\* a scan that has buffered this many stations is not followed further
MaxBufLen == 12

----------------------------------------------------------------------------
(* Static tables *)

STATIONS ==
  << \* central
     << "hasiph", "korihasiph", "southbridge", "parliament", "kandami",
        "kutsimati", "kemigitech", "azadimoph" >>,
     \* coastal
     << "venice", "waisharkil", "korihasiph", "hasiph", "dern", "detech",
        "amiri", "snowbing" >>,
     \* airport
     << "airport", "venice", "quramitu", "hayalese", "university",
        "parliament", "distaye", "rasir piss", "marcosia", "sanzaleka",
        "akemane", "dern" >>,
     \* hattakesh
     << "hasiph", "damatsalan", "rasir piss", "kanahide", "kemigitech",
        "yelojaber" >> >>

STATION_LINES ==
  [ s \in { "akemane", "hasiph", "korihasiph", "southbridge", "parliament",
            "kandami", "kutsimati", "kemigitech", "azadimoph", "venice",
            "waisharkil", "dern", "detech", "amiri", "snowbing", "airport",
            "quramitu", "hayalese", "university", "distaye", "rasir piss",
            "marcosia", "sanzaleka", "damatsalan", "kanahide", "yelojaber",
            "amirkhan", "amiri south" } |->
      CASE s = "akemane"     -> << "CTL", "APL" >>
        [] s = "hasiph"      -> << "CTL", "CSL", "HTL" >>
        [] s = "korihasiph"  -> << "CTL", "CSL" >>
        [] s = "southbridge" -> << "CTL" >>
        [] s = "parliament"  -> << "CTL", "APL" >>
        [] s = "kandami"     -> << "CTL" >>
        [] s = "kutsimati"   -> << "CTL" >>
        [] s = "kemigitech"  -> << "CTL", "HTL" >>
        [] s = "azadimoph"   -> << "CTL" >>
        [] s = "venice"      -> << "CSL", "APL" >>
        [] s = "waisharkil"  -> << "CSL" >>
        [] s = "dern"        -> << "CSL", "APL" >>
        [] s = "detech"      -> << "CSL" >>
        [] s = "amiri"       -> << "CSL", "RLR" >>
        [] s = "snowbing"    -> << "CSL" >>
        [] s = "airport"     -> << "APL" >>
        [] s = "quramitu"    -> << "APL" >>
        [] s = "hayalese"    -> << "APL" >>
        [] s = "university"  -> << "APL" >>
        [] s = "distaye"     -> << "APL" >>
        [] s = "rasir piss"  -> << "APL", "HTL" >>
        [] s = "marcosia"    -> << "APL" >>
        [] s = "sanzaleka"   -> << "APL" >>
        [] s = "damatsalan"  -> << "HTL" >>
        [] s = "kanahide"    -> << "HTL" >>
        [] s = "yelojaber"   -> << "HTL" >>
        [] s = "amirkhan"    -> << "RLR" >>
        [] s = "amiri south" -> << "RLR" >> ]

----------------------------------------------------------------------------
(* Python helpers *)

Range(seq) == { seq[k] : k \in 1..Len(seq) }

\* seq[k] does not raise IndexError
InRange(seq, k) == k >= -Len(seq) /\ k < Len(seq)

\* seq[k] with Python's 0-based and negative indexing
At(seq, k) == IF k >= 0 THEN seq[k + 1] ELSE seq[Len(seq) + k + 1]

None == << >>

Some(x) == << x >>

\* attribute or variable that has not been assigned
NoLine == "unset"

NoStation == ""

----------------------------------------------------------------------------
(* MetroNetwork *)

add_station(g, station) ==
  IF station \in DOMAIN g THEN g ELSE g @@ (station :> << >>)

add_connection(g, station1, station2) ==
  LET g1 == add_station(add_station(g, station1), station2)
      g2 == [g1 EXCEPT ![station1] = Append(@, station2)]
  IN  [g2 EXCEPT ![station2] = Append(@, station1)]

RECURSIVE add_connections_from(_, _, _)
add_connections_from(g, conns, k) ==
  \* range(len(conns)) is exhausted, or i + 1 == len(conns): break
  IF k > Len(conns) \/ k = Len(conns)
  THEN g
  ELSE add_connections_from(add_connection(g, conns[k], conns[k + 1]), conns, k + 1)

add_connections(g, conns) == add_connections_from(g, conns, 1)

RECURSIVE build_from(_, _)
build_from(g, k) ==
  IF k > Len(STATIONS) THEN g
  ELSE build_from(add_connections(g, STATIONS[k]), k + 1)

\* the network main() builds: adjacency lists in insertion order
graph == build_from([s \in {} |-> << >>], 1)

allstations_s == UNION { Range(STATIONS[k]) : k \in 1..Len(STATIONS) }

RECURSIVE get_path_loop(_, _, _)
get_path_loop(queue, visited, target) ==
  IF queue = << >> THEN None
  ELSE LET current_station == Head(queue)[1]
           p == Head(queue)[2]
           rest == Tail(queue)
       IN  IF current_station = target THEN Some(p)
           ELSE IF current_station \notin visited
           THEN LET visited2 == visited \cup {current_station}
                    nbrs == SelectSeq(graph[current_station],
                                      LAMBDA n : n \notin visited2)
                    pushed == [k \in 1..Len(nbrs) |-> << nbrs[k], Append(p, nbrs[k]) >>]
                IN  get_path_loop(rest \o pushed, visited2, target)
           ELSE get_path_loop(rest, visited, target)

get_path(s, e) ==
  IF s \notin DOMAIN graph \/ e \notin DOMAIN graph THEN None
  ELSE get_path_loop(<< << s, << s >> >> >>, {}, e)

RECURSIVE shortest_path_loop(_, _, _)
shortest_path_loop(queue, visited, target) ==
  IF queue = << >> THEN None
  ELSE LET current_station == Head(queue)[1]
           distance == Head(queue)[2]
           rest == Tail(queue)
       IN  IF current_station = target THEN Some(distance)
           ELSE IF current_station \notin visited
           THEN LET visited2 == visited \cup {current_station}
                    nbrs == SelectSeq(graph[current_station],
                                      LAMBDA n : n \notin visited2)
                    pushed == [k \in 1..Len(nbrs) |-> << nbrs[k], distance + 1 >>]
                IN  shortest_path_loop(rest \o pushed, visited2, target)
           ELSE shortest_path_loop(rest, visited, target)

shortest_path(s, e) ==
  IF s \notin DOMAIN graph \/ e \notin DOMAIN graph THEN None
  ELSE shortest_path_loop(<< << s, 0 >> >>, {}, e)

base_fare == 5

\* every hop charged, the first one included
total_fare_every_hop(distance) ==
  LET total == base_fare + 1 * distance
  IN  IF total >= 5 THEN total ELSE -1

\* the total returned whatever its value
total_fare_unchecked(distance) == base_fare + 1 * (distance - 1)

\* the value calculate_fare returns for a distance that is not None
total_fare(distance) ==
  LET additional_cost == 1 * (distance - 1)
      total == base_fare + additional_cost
  IN  IF total >= 5 THEN total ELSE -1

----------------------------------------------------------------------------
(* Actions of an itinerary *)

BeginAt(station) == [type |-> "BeginAt", station |-> station]

\* to_line is the attribute the post-processing pass adds to a GoTo
GoTo(to, frm, on_line, stations) ==
  [type |-> "GoTo", to |-> to, frm |-> frm, on_line |-> on_line,
   stations |-> stations, to_line |-> NoLine]

Transfer(at, from_line, to_line) ==
  [type |-> "Transfer", at |-> at, from_line |-> from_line, to_line |-> to_line]

ArriveAt(station) == [type |-> "ArriveAt", station |-> station]

has_common(list1, list2) == Range(list1) \cap Range(list2) # {}

\* the lines of the first station only, the intersection forgotten
common_line_first_station_only(stations) == Range(STATION_LINES[stations[1]])

\* the members of the list returned for a non-empty list of stations
common_line_between_stations(stations) ==
  LET lines == [k \in 1..Len(stations) |-> Range(STATION_LINES[stations[k]])]
  IN  { l \in lines[1] : \A k \in 2..Len(stations) : l \in lines[k] }

\* the lambda cond of the scan loop, for indices that do not raise
cond(p, k, line) ==
  /\ has_common(STATION_LINES[At(p, k)], STATION_LINES[At(p, k + 1)])
  /\ line \in Range(STATION_LINES[At(p, k)]) \cup Range(STATION_LINES[At(p, k + 1)])

\* the segment closed without its GoTo
transfer_actions_no_goto(station, nextstation, frm, line, stations) ==
  << Transfer(station, STATION_LINES[nextstation][1], STATION_LINES[station][1]) >>

\* the two actions appended when a line change is made at station
transfer_actions(station, nextstation, frm, line, stations) ==
  << GoTo(station, frm, line, stations),
     Transfer(station, STATION_LINES[nextstation][1], STATION_LINES[station][1]) >>

\* evaluating cond raises IndexError
cond_raises(p, k) == ~InRange(p, k) \/ ~InRange(p, k + 1)

\* isinstance(route[len(route)-1], cls)
last_is(r, cls) == r[Len(r)].type = cls

----------------------------------------------------------------------------
(* Inputs *)

\* names a user can type: every station of the network and two that the
\* graph does not know
Queries == allstations_s \cup {"amirkhan", "unknownstation"}

RECURSIVE WalksOfLen(_)
WalksOfLen(n) ==
  IF n = 1 THEN { << s >> : s \in allstations_s }
  ELSE UNION { { Append(w, t) : t \in Range(graph[w[Len(w)]]) } : w \in WalksOfLen(n - 1) }

\* paths handed to get_route_from_path by a caller other than main()
DirectPaths == { << >> } \cup UNION { WalksOfLen(n) : n \in 1..MaxWalkLen }

----------------------------------------------------------------------------
(* State machine *)

Init ==
  /\ start = NoStation
  /\ end = NoStation
  /\ path = << >>
  /\ pc = "idle"
  /\ i = 0
  /\ route = << >>
  /\ begin = ""
  /\ buf = << >>
  /\ curline = NoLine
  /\ err = "none"
  /\ cost = None

raise(e) == pc' = "raised" /\ err' = e

\* metroroute.main: read the two names, get_path, exit(1) on None, else
\* call get_route_from_path (whose locals are initialised here)
main_get_path(frm, to) ==
  /\ pc = "idle"
  /\ start' = frm
  /\ end' = to
  /\ LET found == get_path(frm, to)
     IN  IF found = None
         THEN /\ pc' = "exit"
              /\ UNCHANGED path
         ELSE /\ pc' = "while"
              /\ path' = found[1]
  /\ UNCHANGED <<i, route, begin, buf, curline, err, cost>>

\* get_route_from_path called on a path that did not come from main()
call_get_route_from_path(p) ==
  /\ pc = "idle"
  /\ path' = p
  /\ pc' = "while"
  /\ UNCHANGED <<start, end, i, route, begin, buf, curline, err, cost>>

\* metrofares.main: calculate_fare for a pair of names
fares_calculate_fare(s, e) ==
  /\ pc = "idle"
  /\ start' = s
  /\ end' = e
  /\ LET distance == shortest_path(s, e)
     IN  IF distance = None
         THEN /\ pc' = "fare_raised"
              /\ err' = "ValueError: invalid route"
              /\ UNCHANGED cost
         ELSE /\ pc' = "fare_returned"
              /\ cost' = Some(total_fare(distance[1]))
              /\ UNCHANGED err
  /\ UNCHANGED <<path, i, route, begin, buf, curline>>

\* while i < len(path): ... if i == 0: ...
while_head ==
  /\ pc = "while"
  /\ IF i < Len(path)
     THEN /\ pc' = "scan"
          /\ IF i = 0
             THEN /\ route' = Append(route, BeginAt(At(path, i)))
                  /\ begin' = At(path, i)
                  /\ curline' = STATION_LINES[At(path, i)][1]
             ELSE UNCHANGED <<route, begin, curline>>
          /\ UNCHANGED i
     ELSE /\ pc' = "post"
          /\ i' = 0
          /\ UNCHANGED <<route, begin, curline>>
  /\ UNCHANGED <<start, end, path, buf, err, cost>>

\* one evaluation of cond() in the inner while of the try block
scan ==
  /\ pc = "scan"
  /\ Len(buf) < MaxBufLen
  /\ IF cond_raises(path, i)
     THEN /\ pc' = "except"
          /\ UNCHANGED <<i, buf>>
     ELSE IF cond(path, i, curline)
     THEN /\ buf' = Append(buf, At(path, i))
          /\ i' = i + 1
          /\ UNCHANGED pc
     ELSE /\ i' = i - 1
          /\ pc' = "transfer"
          /\ UNCHANGED buf
  /\ UNCHANGED <<start, end, path, route, begin, curline, err, cost>>

\* except IndexError: close the final segment
except_IndexError ==
  /\ pc = "except"
  /\ IF i = Len(path) - 1
     THEN IF route = << >>
          THEN /\ raise("IndexError")
               /\ UNCHANGED <<route, buf>>
          ELSE IF ~last_is(route, "GoTo")
          THEN IF Len(buf) = 0
               THEN /\ raise("ValueError: Not enough stations for calculaton")
                    /\ UNCHANGED <<route, buf>>
               ELSE IF common_line_between_stations(buf) = {}
               THEN /\ raise("IndexError")
                    /\ UNCHANGED <<route, buf>>
               ELSE \E common_line \in common_line_between_stations(buf) :
                      LET buf2 == Append(buf, At(path, i))
                          patched == IF last_is(route, "Transfer")
                                     THEN [route EXCEPT ![Len(route)].to_line = common_line]
                                     ELSE route
                      IN  /\ buf' = buf2
                          /\ route' = patched \o << GoTo(At(path, i), begin, common_line, buf2),
                                                     ArriveAt(At(path, i)) >>
                          /\ pc' = "post"
                          /\ UNCHANGED err
          ELSE /\ pc' = "transfer"
               /\ UNCHANGED <<route, buf, err>>
     ELSE /\ pc' = "transfer"
          /\ UNCHANGED <<route, buf, err>>
  /\ i' = IF pc' = "post" THEN 0 ELSE i
  /\ UNCHANGED <<start, end, path, begin, curline, cost>>

\* if len(STATION_LINES[path[i]]) > 1: emit GoTo and Transfer
transfer ==
  /\ pc = "transfer"
  /\ Len(route) + 2 <= MaxRouteLen
  /\ IF ~InRange(path, i)
     THEN /\ raise("IndexError")
          /\ UNCHANGED <<i, route, begin, buf, curline>>
     ELSE IF Len(STATION_LINES[At(path, i)]) > 1
     THEN IF ~InRange(path, i + 1)
          THEN /\ raise("IndexError")
               /\ UNCHANGED <<i, route, begin, buf, curline>>
          ELSE LET line == STATION_LINES[At(path, i)][1]
                   nextstation == At(path, i + 1)
               IN  /\ curline' = line
                   /\ route' = route \o transfer_actions(At(path, i), nextstation, begin, line, buf)
                   /\ buf' = << At(path, i), nextstation >>
                   /\ begin' = At(path, i)
                   /\ i' = i + 1
                   /\ pc' = "while"
                   /\ UNCHANGED err
     ELSE /\ pc' = "while"
          /\ UNCHANGED <<i, route, begin, buf, curline, err>>
  /\ UNCHANGED <<start, end, path, cost>>

\* for i, actn in enumerate(route): one element of the post-processing pass
post_process ==
  /\ pc = "post"
  /\ i < Len(route)
  /\ LET actn == At(route, i)
     IN  IF actn.type = "GoTo"
         THEN IF Len(actn.stations) = 0
              THEN /\ raise("ValueError: Not enough stations for calculaton")
                   /\ UNCHANGED <<i, route, buf>>
              ELSE IF common_line_between_stations(actn.stations) = {}
                      \/ ~InRange(route, i + 1)
              THEN /\ raise("IndexError")
                   /\ UNCHANGED <<i, route>>
                   /\ buf' = actn.stations
              ELSE \E line \in common_line_between_stations(actn.stations) :
                     /\ buf' = actn.stations
                     /\ route' = [route EXCEPT ![i + 1] =
                          [actn EXCEPT !.on_line = line,
                                       !.to_line = IF At(route, i + 1).type = "Transfer"
                                                   THEN At(route, i + 1).to_line
                                                   ELSE @]]
                     /\ i' = i + 1
                     /\ UNCHANGED <<pc, err>>
         ELSE IF actn.type = "Transfer"
         THEN /\ route' = IF At(route, i - 1).type = "GoTo"
                          THEN [route EXCEPT ![i + 1].from_line = At(route, i - 1).on_line]
                          ELSE route
              /\ i' = i + 1
              /\ UNCHANGED <<pc, err, buf>>
         ELSE /\ i' = i + 1
              /\ UNCHANGED <<pc, err, buf, route>>
  /\ UNCHANGED <<start, end, path, begin, curline, cost>>

\* return route
return_route ==
  /\ pc = "post"
  /\ i >= Len(route)
  /\ pc' = "returned"
  /\ UNCHANGED <<start, end, path, i, route, begin, buf, curline, err, cost>>

\* metroroute.main after get_route_from_path returned: calculate_fare(frm, to)
main_calculate_fare ==
  /\ pc = "returned"
  /\ start # NoStation
  /\ LET distance == shortest_path(start, end)
     IN  IF distance = None
         THEN /\ pc' = "fare_raised"
              /\ err' = "ValueError: invalid route"
              /\ UNCHANGED cost
         ELSE /\ pc' = "printed"
              /\ cost' = Some(total_fare(distance[1]))
              /\ UNCHANGED err
  /\ UNCHANGED <<start, end, path, i, route, begin, buf, curline>>

Next ==
  \/ \E frm \in Queries, to \in Queries : main_get_path(frm, to)
  \/ \E p \in DirectPaths : call_get_route_from_path(p)
  \/ \E s \in Queries, e \in Queries : fares_calculate_fare(s, e)
  \/ while_head
  \/ scan
  \/ except_IndexError
  \/ transfer
  \/ post_process
  \/ return_route
  \/ main_calculate_fare

Spec == Init /\ [][Next]_vars

TypeOK ==
  /\ pc \in {"idle", "exit", "while", "scan", "except", "transfer", "post",
             "returned", "raised", "printed", "fare_returned", "fare_raised"}
  /\ Len(route) <= MaxRouteLen

----------------------------------------------------------------------------
(* Properties *)

\* get_route_from_path has returned its route
Returned == pc \in {"returned", "printed"}

\* get_route_from_path has returned or raised
Finished == Returned \/ pc = "raised"

\* the path being compiled is the one main() got from get_path(start, end)
FromMain == start # NoStation /\ pc \notin {"idle", "exit", "fare_returned", "fare_raised"}

Lines == {"CTL", "CSL", "APL", "HTL", "RLR"}

\* the lines that serve every station of a list
LinesServingAll(stations) ==
  { l \in Lines : \A k \in 1..Len(stations) : \E n \in 1..Len(STATION_LINES[stations[k]]) :
                     STATION_LINES[stations[k]][n] = l }

GoTos(r) == { k \in 1..Len(r) : r[k].type = "GoTo" }

Transfers(r) == { k \in 1..Len(r) : r[k].type = "Transfer" }

\* BeginAt, (GoTo, Transfer)*, GoTo, ArriveAt
IsShape(r) ==
  /\ Len(r) >= 3
  /\ Len(r) % 2 = 1
  /\ r[1].type = "BeginAt"
  /\ r[Len(r)].type = "ArriveAt"
  /\ \A k \in 2..(Len(r) - 1) : r[k].type = (IF k % 2 = 0 THEN "GoTo" ELSE "Transfer")

\* C1: once get_route_from_path has finished on a non-empty path, it has
\* returned a route whose first action is BeginAt(path[0]) and whose last
\* action is ArriveAt(path[n-1]).
C1_BeginsAndArrives ==
  (Finished /\ Len(path) >= 1) =>
     /\ Returned
     /\ route # << >>
     /\ route[1].type = "BeginAt"
     /\ route[1].station = path[1]
     /\ route[Len(route)].type = "ArriveAt"
     /\ route[Len(route)].station = path[Len(path)]

\* C2: every route returned for a non-empty path has the shape
\* BeginAt, (GoTo, Transfer)*, GoTo, ArriveAt.
C2_Shape == (Returned /\ Len(path) >= 1) => IsShape(route)

C2_Witness == pc = "returned" /\ Len(path) >= 1 /\ Cardinality(Transfers(route)) >= 2

\* C3 as claimed: in every route returned for a path of get_path, the lines
\* common to all stations of a GoTo are exactly its on_line and no other.
C3_ExactlyOnLine ==
  (Returned /\ FromMain) =>
     \A k \in GoTos(route) : LinesServingAll(route[k].stations) = {route[k].on_line}

\* C3 as amended: in every route returned for a path of get_path, the lines
\* common to all stations of a GoTo are not empty and include its on_line.
C3_OnLineIsCommon ==
  (Returned /\ FromMain) =>
     \A k \in GoTos(route) : route[k].on_line \in LinesServingAll(route[k].stations)

C3_Witness ==
  /\ pc = "returned"
  /\ FromMain
  /\ \E k \in GoTos(route) :
        /\ Cardinality(LinesServingAll(route[k].stations)) = 2
        /\ route[k].on_line \in LinesServingAll(route[k].stations)

\* positions of the path, other than its ends, where parliament is passed
\* with the station before on one of Central / Airport and the station
\* after on the other
ParliamentChanges(p) ==
  { k \in 2..(Len(p) - 1) :
      /\ p[k] = "parliament"
      /\ \E a \in {"CTL", "APL"}, b \in {"CTL", "APL"} :
            /\ a # b
            /\ a \in Range(STATION_LINES[p[k - 1]])
            /\ a \notin Range(STATION_LINES[p[k + 1]])
            /\ b \in Range(STATION_LINES[p[k + 1]])
            /\ b \notin Range(STATION_LINES[p[k - 1]]) }

\* C4: once get_route_from_path has finished on a path of get_path that
\* changes line at parliament, it has returned a route with exactly one
\* Transfer at parliament, from the line ridden in to the line ridden out.
C4_ParliamentTransfer ==
  (Finished /\ FromMain /\ ParliamentChanges(path) # {}) =>
     /\ Returned
     /\ \A k \in ParliamentChanges(path) :
          /\ Cardinality({ t \in Transfers(route) : route[t].at = "parliament" }) = 1
          /\ \A t \in Transfers(route) : route[t].at = "parliament" =>
                /\ route[t].from_line \in Range(STATION_LINES[path[k - 1]])
                /\ route[t].to_line \in Range(STATION_LINES[path[k + 1]])

ScenarioPath == << "hasiph", "korihasiph", "southbridge" >>

ScenarioRoute ==
  << BeginAt("hasiph"),
     GoTo("southbridge", "hasiph", "CTL", ScenarioPath),
     ArriveAt("southbridge") >>

\* C5 as claimed: main() on hasiph, southbridge compiles the path
\* [hasiph, korihasiph, southbridge] to BeginAt, one Central Line GoTo over
\* the three stations, ArriveAt, and the fare is 7.
C5_ScenarioFare7 ==
  (pc = "printed" /\ path = ScenarioPath) => (route = ScenarioRoute /\ cost = Some(7))

\* C5 as amended: the same route, and the fare is 6.
C5_ScenarioFare6 ==
  (pc = "printed" /\ path = ScenarioPath) => (route = ScenarioRoute /\ cost = Some(6))

C5_Witness == pc = "printed" /\ path = ScenarioPath /\ start = "hasiph" /\ end = "southbridge"

\* C6: get_route_from_path on the empty path does not return, it raises.
C6_EmptyPathRaises == (Finished /\ path = << >>) => pc = "raised"

FareDone == pc \in {"fare_returned", "fare_raised", "printed"}

Max(a, b) == IF a >= b THEN a ELSE b

\* C7 as claimed: calculate_fare raises exactly when shortest_path is None
\* and otherwise returns max(5, 5 + (d - 1)).
C7_FareIsMax ==
  FareDone =>
     LET d == shortest_path(start, end)
     IN  /\ (pc = "fare_raised") <=> (d = None)
         /\ d # None => cost = Some(Max(5, 5 + (d[1] - 1)))

\* C7 as amended: calculate_fare raises exactly when shortest_path is None;
\* otherwise it returns 5 + (d - 1) when d >= 1 and -1 when d = 0.
C7_FareOrMinusOne ==
  FareDone =>
     LET d == shortest_path(start, end)
     IN  /\ (pc = "fare_raised") <=> (d = None)
         /\ d # None => cost = Some(IF d[1] >= 1 THEN 5 + (d[1] - 1) ELSE -1)

C7_Witness == pc = "fare_returned" /\ start = end /\ cost = Some(-1)

\* C8: compiling a path of get_path never emits a second Transfer at a
\* station where it has already emitted one; the route stays within the
\* 2n - 1 actions that n stations can need.
C8_NoRepeatedTransfer ==
  FromMain =>
     /\ \A a \in Transfers(route), b \in Transfers(route) :
           route[a].at = route[b].at => a = b
     /\ Len(route) <= 2 * Len(path) + 1

\* C9: in every returned route each Transfer's from_line is the on_line of
\* the GoTo before it and its to_line the on_line of the GoTo after it.
C9_TransferLinesMatch ==
  (Returned /\ Len(path) >= 1) =>
     \A t \in Transfers(route) :
        /\ t > 1 /\ t < Len(route)
        /\ route[t].from_line = route[t - 1].on_line
        /\ route[t].to_line = route[t + 1].on_line

\* C10: in every returned route each GoTo's stations are the slice of the
\* path from its frm station to its to station, each station once.
C10_StationsAreSlice ==
  Returned =>
     \A k \in GoTos(route) :
        \E a \in 1..Len(path), b \in 1..Len(path) :
           /\ a <= b
           /\ path[a] = route[k].frm
           /\ path[b] = route[k].to
           /\ route[k].stations = SubSeq(path, a, b)

====
